---------------------------- MODULE Spec2Model ----------------------------
(***************************************************************************)
(* Model of the SEIRD agent simulation of src/backend: Person (the agent), *)
(* DiseaseSpreadModel (the orchestrator), compute_path (the router) and    *)
(* the path cache that Person.step keeps in the model object.              *)
(*                                                                         *)
(* Probabilities and random draws are integers in percent: a draw r of     *)
(* random.random() in [0,1) is a value of 0..99, a probability p is        *)
(* 100*p.  Coordinates are integer pairs and distances are compared by     *)
(* their squares.                                                          *)
(***************************************************************************)
EXTENDS Integers, Sequences, FiniteSets, TLC

VARIABLES
    params,            \* the constructor's arguments kept in the model object
    agents,            \* unique_id -> the fields of the Person object
    schedule,          \* schedule.agents: ids of the active agents, in order
    pending,           \* agents of this tick's shuffle not yet activated
    steps,             \* schedule.steps
    path_cache,        \* (origin, destination) -> the list object stored there
    infection_events,  \* the log of (transmitter, receiver, tick)
    pc,                \* position inside DiseaseSpreadModel.step / construction
    deaths,            \* observer: number of transitions to D so far
    removals,          \* observer: unique_id -> times removed from the schedule
    tickStart,         \* observer: unique_id -> state when the tick started
    snapshot,          \* observer: what get_state() returned since the last step()
    call,              \* a function called on its own: its arguments and result
    served             \* the serving layer: its model global, calls and response

vars == <<params, agents, schedule, pending, steps, path_cache,
          infection_events, pc, deaths, removals, tickStart, snapshot,
          call, served>>

-----------------------------------------------------------------------------
(* Bounds of the model *)

MaxSteps == 3
MaxSeedAgents == 201

(* Inputs: the values of random.random() the model distinguishes *)
Draws == {0, 99}

\* Python's None in the optional fields work and school
None == -1

\* self.path of a new Person: its own empty list, not a list of the cache
OwnList == <<>>

-----------------------------------------------------------------------------
(* The geographic data load_geographic_data returns: a weighted undirected *)
(* graph on the node ids 0..N-1, the coordinates of the nodes and the POI  *)
(* lists.  The graph is the cycle 0-1-2-3-0 with a long edge 0-3, and node *)
(* 4 is not connected to the others.                                       *)

Coordinates == <<(<<0, 0>>), (<<1, 0>>), (<<2, 0>>), (<<2, 1>>), (<<5, 5>>)>>
numberOfNodes == Len(Coordinates)
Nodes == 0 .. (numberOfNodes - 1)
NodeGeometry(n) == Coordinates[n + 1]

EdgeWeights ==
    (<<0, 1>> :> 1) @@ (<<1, 2>> :> 1) @@ (<<2, 3>> :> 1) @@ (<<0, 3>> :> 5)
HasEdge(u, v) == <<u, v>> \in DOMAIN EdgeWeights \/ <<v, u>> \in DOMAIN EdgeWeights
Weight(u, v) == IF <<u, v>> \in DOMAIN EdgeWeights THEN EdgeWeights[<<u, v>>]
                ELSE EdgeWeights[<<v, u>>]

pois == [schools |-> {0, 2}, offices |-> {0, 2}, shops |-> {}, parks |-> {3, 4},
         restaurants |-> {}, cafes |-> {}, hotels |-> {}]
work_pois == pois.offices \cup pois.shops
education_pois == pois.schools
leisure_pois == pois.parks \cup pois.restaurants \cup pois.cafes \cup pois.shops

-----------------------------------------------------------------------------
(* compute_path: Dijkstra from start, then getPath(end).  The run is taken *)
(* as the single-source search from start that stores its paths.  getPath  *)
(* returns the nodes of a shortest path from the source to the target,     *)
(* both included, and the empty list when the target has no predecessor:   *)
(* when it is unreachable or is the source itself.  The graph below has    *)
(* one shortest path for each pair of nodes.                               *)

RECURSIVE PathWeight(_)
PathWeight(p) == IF Len(p) < 2 THEN 0
                 ELSE Weight(p[1], p[2]) + PathWeight(Tail(p))

IsWalk(p) == \A i \in 1 .. (Len(p) - 1) : HasEdge(p[i], p[i + 1])

\* a lightest path from u to t through nodes not yet visited, <<>> if none
RECURSIVE Lightest(_, _, _)
Lightest(u, t, visited) ==
    IF u = t THEN <<t>>
    ELSE LET next == {v \in Nodes \ (visited \cup {u}) : HasEdge(u, v)}
             tails == {Lightest(v, t, visited \cup {u}) : v \in next} \ {<<>>}
             cands == {<<u>> \o q : q \in tails}
         IN  IF cands = {} THEN <<>>
             ELSE CHOOSE p \in cands :
                     \A q \in cands : PathWeight(p) <= PathWeight(q)

getPath(s, t) == IF s = t THEN <<>> ELSE Lightest(s, t, {})

ShortestPaths == {<<s, t, getPath(s, t)>> : s \in Nodes, t \in Nodes}

compute_path_DirectWhenNone(start, end) ==
    IF ~(0 <= start /\ start < numberOfNodes) THEN <<>>
    ELSE IF ~(0 <= end /\ end < numberOfNodes) THEN <<>>
    ELSE LET path == (CHOOSE e \in ShortestPaths : e[1] = start /\ e[2] = end)[3]
         IN  IF path # <<>> THEN path ELSE <<end>>

compute_path(start, end) ==
    IF ~(0 <= start /\ start < numberOfNodes) THEN <<>>
    ELSE IF ~(0 <= end /\ end < numberOfNodes) THEN <<>>
    ELSE (CHOOSE e \in ShortestPaths : e[1] = start /\ e[2] = end)[3]

-----------------------------------------------------------------------------
(* Person *)

Truthy(x) == x # None /\ x # 0

\* Person.__init__: the fields of a new agent
Person(geometry, home, work, school, age) ==
    [state |-> "S", age |-> age, home |-> home, work |-> work, school |-> school,
     current_destination |-> home, path |-> OwnList, latent_timer |-> 0,
     infection_timer |-> 0, current_node |-> home, geometry |-> geometry]

\* The list self.path refers to.  A Person starts with a list of its own,
\* which is empty and never written; every later assignment to self.path
\* (lines 45 and 47-48) makes it the very list object stored in path_cache
\* under the key, so the reference is the key.
PathOf(p, cache) == IF p.path = OwnList THEN <<>> ELSE cache[p.path]

\* Person.step, lines 29-38: the timers and the state
StateUpdate_Late(p, rDeath) ==
    IF p.state = "E" THEN
        IF p.latent_timer + 1 > params.latent_period
        THEN [p EXCEPT !.state = "I", !.latent_timer = 0, !.infection_timer = 0]
        ELSE [p EXCEPT !.latent_timer = p.latent_timer + 1]
    ELSE IF p.state = "I" THEN
        IF p.infection_timer + 1 >= params.recovery_period
        THEN [p EXCEPT !.infection_timer = p.infection_timer + 1,
                       !.state = IF rDeath > params.death_rate THEN "R" ELSE "D"]
        ELSE [p EXCEPT !.infection_timer = p.infection_timer + 1]
    ELSE p

StateUpdate_SwappedOutcome(p, rDeath) ==
    IF p.state = "E" THEN
        IF p.latent_timer + 1 >= params.latent_period
        THEN [p EXCEPT !.state = "I", !.latent_timer = 0, !.infection_timer = 0]
        ELSE [p EXCEPT !.latent_timer = p.latent_timer + 1]
    ELSE IF p.state = "I" THEN
        IF p.infection_timer + 1 >= params.recovery_period
        THEN [p EXCEPT !.infection_timer = p.infection_timer + 1,
                       !.state = IF rDeath > params.death_rate THEN "D" ELSE "R"]
        ELSE [p EXCEPT !.infection_timer = p.infection_timer + 1]
    ELSE p

StateUpdate(p, rDeath) ==
    IF p.state = "E" THEN
        IF p.latent_timer + 1 >= params.latent_period
        THEN [p EXCEPT !.state = "I", !.latent_timer = 0, !.infection_timer = 0]
        ELSE [p EXCEPT !.latent_timer = p.latent_timer + 1]
    ELSE IF p.state = "I" THEN
        IF p.infection_timer + 1 >= params.recovery_period
        THEN [p EXCEPT !.infection_timer = p.infection_timer + 1,
                       !.state = IF rDeath > params.death_rate THEN "R" ELSE "D"]
        ELSE [p EXCEPT !.infection_timer = p.infection_timer + 1]
    ELSE p

\* Person.update_destination: the destination chosen at tick counter t with
\* the draws rHome (line 60), rLeisure (lines 70, 77) and the pick of
\* random.choice(leisure_pois)
update_destination(p, t, rHome, rLeisure, pick) ==
    LET day == (t \div 24) % 7
        hour == t % 24
        is_weekday == day < 5
        leisure == IF leisure_pois # {} THEN pick ELSE p.home
    IN  IF p.state = "I" /\ rHome < 50 THEN p.home
        ELSE IF is_weekday THEN
            IF 5 <= p.age /\ p.age < 18 /\ 8 <= hour /\ hour < 15
            THEN (IF Truthy(p.school) THEN p.school ELSE p.home)
            ELSE IF 18 <= p.age /\ p.age < 65 /\ 8 <= hour /\ hour < 17
            THEN (IF Truthy(p.work) THEN p.work ELSE p.home)
            ELSE IF p.age >= 65 \/ p.age < 5
            THEN (IF rLeisure < 50 THEN leisure ELSE p.home)
            ELSE p.home
        ELSE (IF rLeisure < 30 THEN leisure ELSE p.home)

ResolvePath_Always(p, cache, t, rHome, rLeisure, pick) ==
    LET dest == update_destination(p, t, rHome, rLeisure, pick)
        path_key == <<p.current_node, dest>>
        q == [p EXCEPT !.current_destination = dest, !.path = path_key]
    IN  IF path_key \in DOMAIN cache
        THEN [agent |-> q, cache |-> cache]
        ELSE [agent |-> q,
              cache |-> [k \in DOMAIN cache \cup {path_key} |->
                           IF k = path_key
                           THEN compute_path(p.current_node, dest)
                           ELSE cache[k]]]

\* Person.step, lines 41-48: the agent and the cache after the path is
\* resolved.  On a hit self.path becomes the cached list itself; on a miss
\* the computed list is stored in the cache and is self.path as well.
ResolvePath(p, cache, t, rHome, rLeisure, pick) ==
    IF PathOf(p, cache) # <<>> THEN [agent |-> p, cache |-> cache]
    ELSE LET dest == update_destination(p, t, rHome, rLeisure, pick)
             path_key == <<p.current_node, dest>>
             q == [p EXCEPT !.current_destination = dest, !.path = path_key]
         IN  IF path_key \in DOMAIN cache
             THEN [agent |-> q, cache |-> cache]
             ELSE [agent |-> q,
                   cache |-> [k \in DOMAIN cache \cup {path_key} |->
                                IF k = path_key
                                THEN compute_path(p.current_node, dest)
                                ELSE cache[k]]]

ConsumeHop_StaleGeometry(p, cache) ==
    IF PathOf(p, cache) = <<>> THEN [agent |-> p, cache |-> cache]
    ELSE LET node == Head(cache[p.path])
         IN  [agent |-> [p EXCEPT !.current_node = node,
                                  !.geometry = NodeGeometry(p.current_node)],
              cache |-> [cache EXCEPT ![p.path] = Tail(@)]]

\* Person.step, lines 49-51: self.path.pop(0) takes the first element off
\* the list object self.path refers to
ConsumeHop(p, cache) ==
    IF PathOf(p, cache) = <<>> THEN [agent |-> p, cache |-> cache]
    ELSE LET node == Head(cache[p.path])
         IN  [agent |-> [p EXCEPT !.current_node = node,
                                  !.geometry = NodeGeometry(node)],
              cache |-> [cache EXCEPT ![p.path] = Tail(@)]]

\* Person.step as a whole
PersonStep(p, cache, t, rDeath, rHome, rLeisure, pick) ==
    LET p1 == StateUpdate(p, rDeath)
        r2 == ResolvePath(p1, cache, t, rHome, rLeisure, pick)
    IN  ConsumeHop(r2.agent, r2.cache)

-----------------------------------------------------------------------------
(* DiseaseSpreadModel.__init__ *)

\* line 118: agent number i (from 0) of num_agents starts Infected
SeedState_Floor(i, num_agents) ==
    IF (i + 1) * 100 <= num_agents THEN "I" ELSE "S"

SeedState(i, num_agents) == IF i * 100 < num_agents THEN "I" ELSE "S"

\* lines 105-115: the home, age, school and work an agent may be created with
ValidProfile(f) ==
    /\ f.home \in Nodes
    /\ IF 5 <= f.age /\ f.age < 18 THEN
            /\ f.school \in (IF education_pois # {} THEN education_pois ELSE {f.home})
            /\ f.work = None
       ELSE IF 18 <= f.age /\ f.age < 65 THEN
            /\ f.school = None
            /\ f.work \in (IF work_pois # {} THEN work_pois ELSE {f.home})
       ELSE f.school = None /\ f.work = None

\* lines 116-119: agent number i is created from profile f
NewAgent(i, num_agents, f) ==
    [Person(NodeGeometry(f.home), f.home, f.work, f.school, f.age)
        EXCEPT !.state = SeedState(i, num_agents)]

(* Inputs: the constructor's arguments of a run, and the profiles its      *)
(* agents are created with, in creation order                              *)
Config(prob, threshold, latent, recovery, death) ==
    [infection_prob |-> prob, distance_threshold |-> threshold, num_agents |-> 0,
     latent_period |-> latent, recovery_period |-> recovery, death_rate |-> death]

ParamSets == {Config(100, 1, 1, 3, 50), Config(100, 0, 1, 0, 100),
              Config(50, 0, 2, 2, 0), Config(100, 1, 2, 3, 0)}

Retiree(h) == [home |-> h, age |-> 70, school |-> None, work |-> None]
Worker(h, w) == [home |-> h, age |-> 30, school |-> None, work |-> w]

Populations ==
    {<<Retiree(0)>>,
     <<Retiree(0), Retiree(0), Worker(1, 2)>>,
     <<Retiree(0), Worker(1, 2), Worker(2, 0)>>,
     <<Worker(1, 2), Retiree(0), Retiree(1)>>}

NoSnapshot == [features |-> <<>>, seird_counts |-> <<>>, step |-> -1]

\* no function is called on its own; the model is not behind the serving layer
NoCall == [fn |-> "none", args |-> <<>>, done |-> FALSE, result |-> <<>>]
NoResponse == [error |-> "", state |-> NoSnapshot]
NotServed == [model |-> FALSE, calls |-> 0, response |-> NoResponse]

\* lines 104-121: the agents and the schedule after the loop
InitialAgents(prof) ==
    [id \in 1 .. Len(prof) |-> NewAgent(id - 1, Len(prof), prof[id])]

InitialSchedule(prof) == [i \in 1 .. Len(prof) |-> i]

StatesOf(ags) == [a \in DOMAIN ags |-> ags[a].state]

Init ==
    \E cfg \in ParamSets, prof \in Populations :
        /\ \A i \in 1 .. Len(prof) : ValidProfile(prof[i])
        /\ params = [cfg EXCEPT !.num_agents = Len(prof)]
        /\ agents = InitialAgents(prof)
        /\ schedule = InitialSchedule(prof)
        /\ pending = {}
        /\ steps = 0
        /\ path_cache = <<>>
        /\ infection_events = <<>>
        /\ pc = "idle"
        /\ deaths = 0
        /\ removals = [id \in 1 .. Len(prof) |-> 0]
        /\ tickStart = StatesOf(InitialAgents(prof))
        /\ snapshot = NoSnapshot
        /\ call = NoCall
        /\ served = NotServed

-----------------------------------------------------------------------------
(* DiseaseSpreadModel.step.  RandomActivation.step shuffles the agents and *)
(* activates each one, then adds one to schedule.steps.  The shuffle draws *)
(* from the scheduler's own generator, independently of the agents' draws, *)
(* so the model draws the order one position at a time: at pc = "agents"   *)
(* schedule holds the part of the shuffled order already activated and     *)
(* pending the agents still to come.                                       *)

StartStep ==
    /\ pc = "idle"
    /\ steps < MaxSteps
    /\ pc' = "agents"
    /\ pending' = {schedule[i] : i \in 1 .. Len(schedule)}
    /\ schedule' = <<>>
    /\ snapshot' = NoSnapshot
    /\ tickStart' = StatesOf(agents)
    /\ UNCHANGED <<params, call, served, agents, steps, path_cache, infection_events,
                   deaths, removals>>

\* the activation of agent a: Person.step
AgentStep(a) ==
    /\ pc = "agents"
    /\ a \in pending
    /\ \E rDeath \in Draws, rHome \in Draws, rLeisure \in Draws,
          pick \in (IF leisure_pois # {} THEN leisure_pois ELSE {None}) :
          LET r == PersonStep(agents[a], path_cache, steps,
                              rDeath, rHome, rLeisure, pick)
          IN  /\ agents' = [agents EXCEPT ![a] = r.agent]
              /\ path_cache' = r.cache
              /\ deaths' = IF r.agent.state = "D" /\ agents[a].state # "D"
                           THEN deaths + 1 ELSE deaths
    /\ pending' = pending \ {a}
    /\ schedule' = Append(schedule, a)
    /\ UNCHANGED <<params, call, served, steps, infection_events, pc, removals, tickStart,
                   snapshot>>

\* the end of RandomActivation.step
EndActivation ==
    /\ pc = "agents"
    /\ pending = {}
    /\ steps' = steps + 1
    /\ pc' = "check"
    /\ UNCHANGED <<params, call, served, agents, schedule, pending, path_cache,
                   infection_events, deaths, removals, tickStart, snapshot>>

-----------------------------------------------------------------------------
(* DiseaseSpreadModel.check_infections *)

InState(sched, ags, st) == SelectSeq(sched, LAMBDA a : ags[a].state = st)

\* lines 134-135
Infected_AtTickStart(sched, ags) ==
    SelectSeq(sched, LAMBDA a : tickStart[a] = "I")

Infected_IncludingExposed(sched, ags) ==
    SelectSeq(sched, LAMBDA a : ags[a].state \in {"E", "I"})

Infected(sched, ags) == InState(sched, ags, "I")

Susceptible_WithExposed(sched, ags) ==
    SelectSeq(sched, LAMBDA a : ags[a].state \in {"S", "E"})

Susceptible_AnyState(sched, ags) == sched

Susceptible(sched, ags) == InState(sched, ags, "S")

SqDist(g, h) == (g[1] - h[1]) * (g[1] - h[1]) + (g[2] - h[2]) * (g[2] - h[2])

\* tree.query_ball_point(x, r): the points at distance at most r
InBall_OneTooWide(g, h, r) == SqDist(g, h) <= (r + 1) * (r + 1)

InBall(g, h, r) == SqDist(g, h) <= r * r

\* the (infected, susceptible) pairs in the order the two loops visit them
RECURSIVE PairsOf(_, _, _, _)
PairsOf(infected, susceptible, ags, r) ==
    IF infected = <<>> THEN <<>>
    ELSE LET inf == Head(infected)
             near == SelectSeq(susceptible,
                        LAMBDA s : InBall(ags[inf].geometry, ags[s].geometry, r))
         IN  [i \in 1 .. Len(near) |-> <<inf, near[i]>>]
             \o PairsOf(Tail(infected), susceptible, ags, r)

Passes_Reversed(draw) == draw > params.infection_prob

Passes(draw) == draw < params.infection_prob

\* the agents after the loops: every receiver of a passing draw is E
Exposed(ags, pairs, draws) ==
    [a \in DOMAIN ags |->
        IF \E i \in 1 .. Len(pairs) : pairs[i][2] = a /\ Passes(draws[i])
        THEN [ags[a] EXCEPT !.state = "E", !.latent_timer = 0]
        ELSE ags[a]]

\* the events the loops append, in order
RECURSIVE FirstMatchFrom(_, _, _, _)
FirstMatchFrom(pairs, draws, t, i) ==
    IF i > Len(pairs) THEN <<>>
    ELSE (IF /\ Passes(draws[i])
             /\ ~\E j \in 1 .. (i - 1) : pairs[j][2] = pairs[i][2] /\ Passes(draws[j])
          THEN <<(<<pairs[i][1], pairs[i][2], t>>)>> ELSE <<>>)
         \o FirstMatchFrom(pairs, draws, t, i + 1)

EventsOf_FirstMatch(pairs, draws, t) == FirstMatchFrom(pairs, draws, t, 1)

RECURSIVE EventsOf_TickBefore(_, _, _)
EventsOf_TickBefore(pairs, draws, t) ==
    IF pairs = <<>> THEN <<>>
    ELSE (IF Passes(Head(draws))
          THEN <<(<<Head(pairs)[1], Head(pairs)[2], t - 1>>)>> ELSE <<>>)
         \o EventsOf_TickBefore(Tail(pairs), Tail(draws), t)

RECURSIVE EventsOf(_, _, _)
EventsOf(pairs, draws, t) ==
    IF pairs = <<>> THEN <<>>
    ELSE (IF Passes(Head(draws))
          THEN <<(<<Head(pairs)[1], Head(pairs)[2], t>>)>> ELSE <<>>)
         \o EventsOf(Tail(pairs), Tail(draws), t)

CheckInfections ==
    /\ pc = "check"
    /\ pc' = "remove"
    /\ LET infected == Infected(schedule, agents)
           susceptible == Susceptible(schedule, agents)
       IN  IF infected = <<>> \/ susceptible = <<>>
           THEN UNCHANGED <<agents, infection_events>>
           ELSE LET pairs == PairsOf(infected, susceptible, agents,
                                     params.distance_threshold)
                IN  \E draws \in [1 .. Len(pairs) -> Draws] :
                      /\ agents' = Exposed(agents, pairs, draws)
                      /\ infection_events' =
                            infection_events \o EventsOf(pairs, draws, steps)
    /\ UNCHANGED <<params, call, served, schedule, pending, steps, path_cache, deaths,
                   removals, tickStart, snapshot>>

\* DiseaseSpreadModel.step, lines 127-130
RemoveDeceased_Skip ==
    /\ pc = "remove"
    /\ pc' = "idle"
    /\ UNCHANGED <<params, call, served, agents, schedule, pending, steps, path_cache,
                   infection_events, deaths, removals, tickStart, snapshot>>

RemoveDeceased_AlsoRecovered ==
    /\ pc = "remove"
    /\ pc' = "idle"
    /\ schedule' = SelectSeq(schedule, LAMBDA a : agents[a].state \notin {"R", "D"})
    /\ removals' = [a \in DOMAIN removals |->
                      IF \E i \in 1 .. Len(schedule) :
                            schedule[i] = a /\ agents[a].state = "D"
                      THEN removals[a] + 1 ELSE removals[a]]
    /\ UNCHANGED <<params, call, served, agents, pending, steps, path_cache,
                   infection_events, deaths, tickStart, snapshot>>

RemoveDeceased_PurgeLog ==
    /\ pc = "remove"
    /\ pc' = "idle"
    /\ schedule' = SelectSeq(schedule, LAMBDA a : agents[a].state # "D")
    /\ removals' = [a \in DOMAIN removals |->
                      IF \E i \in 1 .. Len(schedule) :
                            schedule[i] = a /\ agents[a].state = "D"
                      THEN removals[a] + 1 ELSE removals[a]]
    /\ infection_events' =
          SelectSeq(infection_events,
                    LAMBDA e : agents[e[1]].state # "D" /\ agents[e[2]].state # "D")
    /\ UNCHANGED <<params, call, served, agents, pending, steps, path_cache,
                   deaths, tickStart, snapshot>>

RemoveDeceased ==
    /\ pc = "remove"
    /\ pc' = "idle"
    /\ schedule' = SelectSeq(schedule, LAMBDA a : agents[a].state # "D")
    /\ removals' = [a \in DOMAIN removals |->
                      IF \E i \in 1 .. Len(schedule) :
                            schedule[i] = a /\ agents[a].state = "D"
                      THEN removals[a] + 1 ELSE removals[a]]
    /\ UNCHANGED <<params, call, served, agents, pending, steps, path_cache,
                   infection_events, deaths, tickStart, snapshot>>

-----------------------------------------------------------------------------
(* DiseaseSpreadModel.get_state *)

CountOf(sched, ags, st) == Len(InState(sched, ags, st))

StateOf(sched, ags, t) ==
    LET shown == SelectSeq(sched, LAMBDA a : ags[a].state # "D")
    IN  [features |-> [i \in 1 .. Len(shown) |->
                         [coordinates |-> ags[shown[i]].geometry,
                          id |-> shown[i], state |-> ags[shown[i]].state]],
         seird_counts |-> [S |-> CountOf(sched, ags, "S"),
                           E |-> CountOf(sched, ags, "E"),
                           I |-> CountOf(sched, ags, "I"),
                           R |-> CountOf(sched, ags, "R"),
                           D |-> CountOf(sched, ags, "D")],
         step |-> t]

GetState_Compacting ==
    /\ pc = "idle"
    /\ snapshot' = StateOf(schedule, agents, steps)
    /\ schedule' = SelectSeq(schedule, LAMBDA a : agents[a].state # "I")
    /\ UNCHANGED <<params, call, served, agents, pending, steps, path_cache,
                   infection_events, pc, deaths, removals, tickStart>>

GetState ==
    /\ pc = "idle"
    /\ snapshot' = StateOf(schedule, agents, steps)
    /\ UNCHANGED <<params, call, served, agents, schedule, pending, steps, path_cache,
                   infection_events, pc, deaths, removals, tickStart>>

-----------------------------------------------------------------------------

\* RandomActivation.step activates the next agent of the shuffled order
Activate == \E a \in DOMAIN agents : AgentStep(a)

Next ==
    \/ StartStep
    \/ Activate
    \/ EndActivation
    \/ CheckInfections
    \/ RemoveDeceased
    \/ GetState

Spec == Init /\ [][Next]_vars

-----------------------------------------------------------------------------
(* The constructor alone, for populations of up to MaxSeedAgents agents    *)
(* that share one profile.                                                 *)

SeedProfiles == {Retiree(0), Worker(1, 2)}

InitSeed ==
    \E cfg \in ParamSets, n \in 1 .. MaxSeedAgents :
        /\ params = [cfg EXCEPT !.num_agents = n]
        /\ agents = <<>>
        /\ schedule = <<>>
        /\ pending = {}
        /\ steps = 0
        /\ path_cache = <<>>
        /\ infection_events = <<>>
        /\ pc = "new"
        /\ deaths = 0
        /\ removals = <<>>
        /\ tickStart = <<>>
        /\ snapshot = NoSnapshot
        /\ call = NoCall
        /\ served = NotServed

Construct ==
    /\ pc = "new"
    /\ \E f \in SeedProfiles :
          LET prof == [i \in 1 .. params.num_agents |-> f]
          IN  /\ ValidProfile(f)
              /\ agents' = InitialAgents(prof)
              /\ schedule' = InitialSchedule(prof)
              /\ removals' = [id \in 1 .. Len(prof) |-> 0]
              /\ tickStart' = StatesOf(InitialAgents(prof))
    /\ pc' = "idle"
    /\ UNCHANGED <<params, call, served, pending, steps, path_cache, infection_events,
                   deaths, snapshot>>

NextSeed == Construct

SpecSeed == InitSeed /\ [][NextSeed]_vars

-----------------------------------------------------------------------------
(* The router called on its own, with node ids inside and up to Outside    *)
(* ids beyond either end of the graph's range, next to the runs in which   *)
(* Person.step calls it.                                                   *)

Outside == 2
RouterInputs == (0 - Outside) .. (numberOfNodes - 1 + Outside)

\* everything but the call is as it is before a model is constructed
Standalone ==
    /\ params = Config(0, 0, 0, 0, 0)
    /\ agents = <<>>
    /\ schedule = <<>>
    /\ pending = {}
    /\ steps = 0
    /\ path_cache = <<>>
    /\ infection_events = <<>>
    /\ pc = "call"
    /\ deaths = 0
    /\ removals = <<>>
    /\ tickStart = <<>>
    /\ snapshot = NoSnapshot
    /\ served = NotServed

InitRoute ==
    /\ Standalone
    /\ \E start \in RouterInputs, end \in RouterInputs :
          call = [fn |-> "compute_path", args |-> <<start, end>>,
                  done |-> FALSE, result |-> <<>>]

Route ==
    /\ pc = "call"
    /\ call.fn = "compute_path"
    /\ ~call.done
    /\ call' = [call EXCEPT !.done = TRUE,
                            !.result = compute_path(call.args[1], call.args[2])]
    /\ UNCHANGED <<params, served, agents, schedule, pending, steps, path_cache,
                   infection_events, pc, deaths, removals, tickStart, snapshot>>

InitRouter == Init \/ InitRoute

NextRouter == Next \/ Route

SpecRouter == InitRouter /\ [][NextRouter]_vars

-----------------------------------------------------------------------------
(* Person.update_destination called on its own, for an agent as the        *)
(* constructor creates it, at tick counters on both sides of the hours and *)
(* days the routine distinguishes, and ages on both sides of its age       *)
(* limits.                                                                 *)

PolicyAges == {4, 5, 17, 18, 64, 65}
\* hours 7, 8, 14, 15, 16, 17 of day 0; hour 16 of day 4; hour 9 of day 5;
\* hour 8 of day 6; hour 8 of day 7, a weekday again
PolicyTicks == {7, 8, 14, 15, 16, 17, 112, 129, 152, 176}
PolicyDraws == {0, 29, 30, 49, 50, 99}
PolicyStates == {"S", "I"}

PolicyProfiles ==
    {f \in [home : Nodes, age : PolicyAges, school : education_pois \cup {None},
            work : work_pois \cup {None}] : ValidProfile(f)}

InitPolicy ==
    /\ Standalone
    /\ \E f \in PolicyProfiles, st \in PolicyStates, t \in PolicyTicks,
          rHome \in PolicyDraws, rLeisure \in PolicyDraws,
          pick \in (IF leisure_pois # {} THEN leisure_pois ELSE {None}) :
          call = [fn |-> "update_destination",
                  args |-> [agent |-> [NewAgent(1, 1, f) EXCEPT !.state = st],
                            t |-> t, rHome |-> rHome, rLeisure |-> rLeisure,
                            pick |-> pick],
                  done |-> FALSE, result |-> <<>>]

Decide ==
    /\ pc = "call"
    /\ call.fn = "update_destination"
    /\ ~call.done
    /\ call' = [call EXCEPT
                  !.done = TRUE,
                  !.result = update_destination(call.args.agent, call.args.t,
                                                call.args.rHome, call.args.rLeisure,
                                                call.args.pick)]
    /\ UNCHANGED <<params, served, agents, schedule, pending, steps, path_cache,
                   infection_events, pc, deaths, removals, tickStart, snapshot>>

NextPolicy == Decide

SpecPolicy == InitPolicy /\ [][NextPolicy]_vars

-----------------------------------------------------------------------------
(* The serving layer of main.py.  Its global `model` is None until the     *)
(* initialize operation constructs one; the next operation takes the       *)
(* snapshot, runs step() and returns the snapshot.  The handlers are       *)
(* coroutines that never await, so a request runs to its end before the    *)
(* next one starts.  served.calls counts the successful calls of next      *)
(* since the last initialization and served.response is the last value a   *)
(* call of next returned.                                                  *)

InitApi ==
    /\ params = Config(0, 0, 0, 0, 0)
    /\ agents = <<>>
    /\ schedule = <<>>
    /\ pending = {}
    /\ steps = 0
    /\ path_cache = <<>>
    /\ infection_events = <<>>
    /\ pc = "new"
    /\ deaths = 0
    /\ removals = <<>>
    /\ tickStart = <<>>
    /\ snapshot = NoSnapshot
    /\ call = NoCall
    /\ served = NotServed

\* start_simulation: a new model replaces the global
ApiInitialize ==
    /\ pc \in {"new", "idle"}
    /\ \E cfg \in ParamSets, prof \in Populations :
          /\ \A i \in 1 .. Len(prof) : ValidProfile(prof[i])
          /\ params' = [cfg EXCEPT !.num_agents = Len(prof)]
          /\ agents' = InitialAgents(prof)
          /\ schedule' = InitialSchedule(prof)
          /\ removals' = [id \in 1 .. Len(prof) |-> 0]
          /\ tickStart' = StatesOf(InitialAgents(prof))
    /\ pending' = {}
    /\ steps' = 0
    /\ path_cache' = <<>>
    /\ infection_events' = <<>>
    /\ pc' = "idle"
    /\ deaths' = 0
    /\ snapshot' = NoSnapshot
    /\ served' = [model |-> TRUE, calls |-> 0, response |-> NoResponse]
    /\ UNCHANGED call

ApiNext_NoStep ==
    /\ pc \in {"new", "idle"}
    /\ IF ~served.model
       THEN /\ served' = [served EXCEPT !.response =
                             [error |-> "No simulation running", state |-> NoSnapshot]]
            /\ UNCHANGED <<params, call, agents, schedule, pending, steps, path_cache,
                           infection_events, pc, deaths, removals, tickStart,
                           snapshot>>
       ELSE /\ served.calls < MaxSteps
            /\ served' = [served EXCEPT
                            !.calls = served.calls + 1,
                            !.response = [error |-> "",
                                          state |-> StateOf(schedule, agents, steps)]]
            /\ UNCHANGED <<params, call, agents, schedule, pending, steps, path_cache,
                           infection_events, pc, deaths, removals, tickStart,
                           snapshot>>

\* the handler of /api/simulation/next; the step() it calls goes on with the
\* activations, the infection check and the removal
ApiNext ==
    /\ pc \in {"new", "idle"}
    /\ IF ~served.model
       THEN /\ served' = [served EXCEPT !.response =
                             [error |-> "No simulation running", state |-> NoSnapshot]]
            /\ UNCHANGED <<params, call, agents, schedule, pending, steps, path_cache,
                           infection_events, pc, deaths, removals, tickStart,
                           snapshot>>
       ELSE /\ steps < MaxSteps
            /\ served' = [served EXCEPT
                            !.calls = served.calls + 1,
                            !.response = [error |-> "",
                                          state |-> StateOf(schedule, agents, steps)]]
            /\ pc' = "agents"
            /\ pending' = {schedule[i] : i \in 1 .. Len(schedule)}
            /\ schedule' = <<>>
            /\ snapshot' = NoSnapshot
            /\ tickStart' = StatesOf(agents)
            /\ UNCHANGED <<params, call, agents, steps, path_cache, infection_events,
                           deaths, removals>>

NextApi ==
    \/ ApiInitialize
    \/ ApiNext
    \/ Activate
    \/ EndActivation
    \/ CheckInfections
    \/ RemoveDeceased

SpecApi == InitApi /\ [][NextApi]_vars

-----------------------------------------------------------------------------
(* Properties *)

Active == {schedule[i] : i \in 1 .. Len(schedule)} \cup pending

SEIRDEdges == {<<"S", "E">>, <<"E", "I">>, <<"I", "R">>, <<"I", "D">>}

\* C1: the state of an agent changes only along S->E, E->I, I->R, I->D,
\* in every step of the program and from one tick boundary to the next.
C1_OnlySEIRDEdges ==
    /\ [](pc = "idle" =>
            \A a \in DOMAIN agents :
                \/ agents[a].state = tickStart[a]
                \/ <<tickStart[a], agents[a].state>> \in SEIRDEdges)
    /\ [][\A a \in DOMAIN agents :
            \/ agents'[a].state = agents[a].state
            \/ <<agents[a].state, agents'[a].state>> \in SEIRDEdges]_vars

\* one agent went S->E->I and another one left I
C1_Witness ==
    \E a, b \in DOMAIN agents :
        /\ a # 1 /\ agents[a].state = "I"
        /\ agents[b].state \in {"R", "D"}

\* C2: when an agent consumes a hop of its path, the sequences stored in the
\* path cache and the paths of the other agents stay as they were.
C2_ConsumingLeavesCacheAndOthers ==
    [][\A a \in pending \ pending' :
          /\ \A k \in DOMAIN path_cache : path_cache'[k] = path_cache[k]
          /\ \A b \in DOMAIN agents \ {a} :
                PathOf(agents'[b], path_cache') = PathOf(agents[b], path_cache)]_vars

\* C3: every cached sequence equals what compute_path returns for its key.
C3_CacheEqualsRouter ==
    \A k \in DOMAIN path_cache : path_cache[k] = compute_path(k[1], k[2])

ValidPath(p, cache) ==
    LET path == PathOf(p, cache)
    IN  \/ path = <<>>
        \/ /\ HasEdge(p.current_node, path[1])
           /\ IsWalk(path)
           /\ path[Len(path)] = p.current_destination

\* C4: the path of every active agent is empty or a path of the graph from
\* its current_node to its current_destination, and in each activation the
\* current_node stays or moves along one edge.
C4_PathValidAndOneEdge ==
    /\ [](\A a \in Active : ValidPath(agents[a], path_cache))
    /\ [][\A a \in pending \ pending' :
            \/ agents'[a].current_node = agents[a].current_node
            \/ HasEdge(agents[a].current_node, agents'[a].current_node)]_vars

\* C5: an agent that became Deceased in a tick is out of the active
\* population when the tick is over, was removed once, and is never
\* activated again; no active agent is Deceased at a tick boundary.
C5_DeceasedRemovedOnce ==
    /\ pc = "idle" =>
          \A a \in DOMAIN agents :
              IF agents[a].state = "D"
              THEN a \notin Active /\ removals[a] = 1
              ELSE a \in Active /\ removals[a] = 0
    /\ pc = "agents" => \A a \in pending : agents[a].state # "D"
    /\ \A a \in DOMAIN agents : removals[a] <= 1

\* a later tick is under way after an agent died and was removed
C5_Witness ==
    /\ pc = "agents"
    /\ \E a \in DOMAIN agents :
          agents[a].state = "D" /\ removals[a] = 1 /\ tickStart[a] = "D"
    /\ schedule # <<>>

\* C6: the D count get_state() returns is the number of agents that have
\* become Deceased since the start of the run.
C6_DCountIsCumulativeDeaths ==
    snapshot # NoSnapshot => snapshot.seird_counts.D = deaths

\* C7: get_state() changes nothing of the model, and a second call with no
\* step() in between returns what the first one returned.
C7_GetStateReadOnly ==
    [][snapshot' # NoSnapshot =>
          /\ <<params, agents, schedule, pending, steps, path_cache,
               infection_events, pc>>' =
             <<params, agents, schedule, pending, steps, path_cache,
               infection_events, pc>>
          /\ snapshot # NoSnapshot => snapshot' = snapshot
          /\ snapshot' = StateOf(schedule', agents', steps')]_vars

\* get_state() has returned a snapshot of a population that has moved on
C7_Witness ==
    /\ snapshot # NoSnapshot
    /\ snapshot.step >= 2
    /\ Len(snapshot.features) >= 2
    /\ snapshot.seird_counts.I >= 1

SeededAs(k) ==
    \A id \in DOMAIN agents :
        /\ agents[id].state = IF id <= k THEN "I" ELSE "S"
        /\ agents[id].latent_timer = 0
        /\ agents[id].infection_timer = 0

\* C8 as stated: after construction the floor(num_agents * 0.01) agents
\* created first are Infected with timers 0 and the others Susceptible.
C8_SeededFloor ==
    (pc = "idle" /\ steps = 0) => SeededAs(params.num_agents \div 100)

\* C8 amended: after construction the agents whose creation index i
\* satisfies i < num_agents * 0.01, that is the ceil(num_agents * 0.01)
\* created first, are Infected with timers 0 and the others Susceptible.
C8_SeededCeil ==
    (pc = "idle" /\ steps = 0) =>
        /\ DOMAIN agents = 1 .. params.num_agents
        /\ SeededAs((params.num_agents + 99) \div 100)

\* a population of more than 100 agents: two seeded, the third one not
C8_Witness ==
    /\ pc = "idle"
    /\ params.num_agents > 100
    /\ agents[2].state = "I"
    /\ agents[3].state = "S"

Seeded(a) == SeedState(a - 1, params.num_agents) = "I"

\* C9 as stated: with distance_threshold = 0 no agent ever becomes Exposed
\* and no infection event is appended.
C9_NoInfectionAtZero ==
    params.distance_threshold = 0 =>
        /\ infection_events = <<>>
        /\ \A a \in DOMAIN agents : Seeded(a) \/ agents[a].state = "S"

\* C9 amended: with distance_threshold = 0 an agent goes from S to E, and an
\* event is appended, only for a Susceptible and an active Infected agent
\* that have the same coordinates at the infection check.
C9_ZeroOnlyAtSamePoint ==
    [][params.distance_threshold = 0 =>
          /\ \A a \in DOMAIN agents :
                (agents[a].state = "S" /\ agents'[a].state = "E") =>
                    \E b \in Active :
                        /\ agents[b].state = "I"
                        /\ agents[b].geometry = agents[a].geometry
          /\ \A i \in (Len(infection_events) + 1) .. Len(infection_events') :
                LET e == infection_events'[i]
                IN  /\ e[1] # e[2]
                    /\ agents[e[1]].state = "I" /\ agents[e[2]].state = "S"
                    /\ agents[e[1]].geometry = agents[e[2]].geometry]_vars

\* an infection has happened at threshold 0
C9_Witness ==
    /\ params.distance_threshold = 0
    /\ infection_events # <<>>
    /\ \E a \in DOMAIN agents : ~Seeded(a) /\ agents[a].state = "E"

NewEvents == SubSeq(infection_events', Len(infection_events) + 1,
                    Len(infection_events'))

\* the active Infected agents within distance_threshold of agent r
InRange(r) ==
    {b \in Active :
        /\ agents[b].state = "I"
        /\ LET dx == agents[b].geometry[1] - agents[r].geometry[1]
               dy == agents[b].geometry[2] - agents[r].geometry[2]
           IN  dx * dx + dy * dy
                 <= params.distance_threshold * params.distance_threshold}

\* C10: in one infection check a receiver that was Susceptible when the
\* check started gets one event per Infected agent in range whose draw
\* passes: at most one per such agent, exactly one per such agent when
\* infection_prob = 1, each with the tick of the check; its state changes
\* once, to E with latent_timer 0, and only if it got an event.
C10_OneEventPerPassingPair ==
    [][(pc = "check" /\ pc' = "remove") =>
          \A r \in Active :
              LET mine == {i \in 1 .. Len(NewEvents) : NewEvents[i][2] = r}
                  from == {NewEvents[i][1] : i \in mine}
              IN  IF agents[r].state = "S"
                  THEN /\ from \subseteq InRange(r)
                       /\ Cardinality(mine) = Cardinality(from)
                       /\ params.infection_prob = 100 => from = InRange(r)
                       /\ \A i \in mine : NewEvents[i][3] = steps
                       /\ agents'[r] =
                            IF mine = {} THEN agents[r]
                            ELSE [agents[r] EXCEPT !.state = "E", !.latent_timer = 0]
                  ELSE mine = {} /\ agents'[r] = agents[r]]_vars

\* one receiver got two events from two transmitters in the check just made
C10_Witness ==
    /\ pc = "remove"
    /\ params.infection_prob = 100
    /\ \E i, j \in 1 .. Len(infection_events) :
          /\ i < j
          /\ infection_events[i][2] = infection_events[j][2]
          /\ infection_events[i][1] # infection_events[j][1]
          /\ infection_events[i][3] = steps /\ infection_events[j][3] = steps
          /\ agents[infection_events[i][2]].state = "E"
          /\ agents[infection_events[i][2]].latent_timer = 0

\* C11: with infection_prob = 1, every Susceptible agent that is within
\* distance_threshold of an active Infected agent at the infection check is
\* Exposed after the step, and the log holds one event for the pair, with
\* the two ids and the tick of the check.
C11_CertainTransmission ==
    /\ [][(pc = "check" /\ pc' = "remove" /\ params.infection_prob = 100) =>
            \A s \in Active :
                agents[s].state = "S" =>
                    \A i \in InRange(s) :
                        /\ agents'[s].state = "E"
                        /\ Cardinality({n \in 1 .. Len(infection_events') :
                                /\ infection_events'[n][1] = i
                                /\ infection_events'[n][2] = s}) = 1
                        /\ \E n \in 1 .. Len(infection_events') :
                                infection_events'[n] = <<i, s, steps>>]_vars
    /\ []((pc = "idle" /\ steps >= 1 /\ params.infection_prob = 100) =>
            \A s \in Active : agents[s].state = "S" => InRange(s) = {})

\* a step is over in which a pair was in range: the receiver is Exposed and
\* the event carries the tick get_state() reports
C11_Witness ==
    /\ pc = "idle"
    /\ params.infection_prob = 100
    /\ \E n \in 1 .. Len(infection_events) :
          /\ infection_events[n][3] = steps
          /\ agents[infection_events[n][1]].state = "I"
          /\ agents[infection_events[n][2]].state = "E"

\* C12: an agent exposed at tick k, with latent_period = L >= 1, is Exposed
\* with latent_timer = d after d < L further steps and Infected with both
\* timers 0 after exactly L further steps.
C12_LatentPeriodExact ==
    pc = "idle" =>
        \A n \in 1 .. Len(infection_events) :
            LET r == infection_events[n][2]
                d == steps - infection_events[n][3]
            IN  /\ d < params.latent_period =>
                      agents[r].state = "E" /\ agents[r].latent_timer = d
                /\ d = params.latent_period =>
                      /\ agents[r].state = "I"
                      /\ agents[r].latent_timer = 0
                      /\ agents[r].infection_timer = 0

\* with L = 2 an agent exposed two ticks ago has just become Infected
C12_Witness ==
    /\ pc = "idle"
    /\ params.latent_period = 2
    /\ \E n \in 1 .. Len(infection_events) :
          /\ steps - infection_events[n][3] = 2
          /\ agents[infection_events[n][2]].state = "I"

\* C13: with recovery_period = 0 and death_rate = 1 an agent that is
\* Infected when a tick starts is Deceased after the activations of that
\* tick, whatever is drawn, and is in no feature list returned afterwards.
C13_ImmediateDeath ==
    (params.recovery_period = 0 /\ params.death_rate = 100) =>
        /\ (pc \in {"check", "remove"} \/ (pc = "idle" /\ steps >= 1)) =>
              \A a \in DOMAIN agents : tickStart[a] = "I" => agents[a].state = "D"
        /\ (snapshot # NoSnapshot /\ steps >= 1) =>
              \A i \in 1 .. Len(snapshot.features) :
                  /\ tickStart[snapshot.features[i].id] # "I"
                  /\ agents[snapshot.features[i].id].state # "D"

\* the seeded agent of a population of three has died in the first tick and
\* get_state() shows the two others
C13_Witness ==
    /\ params.recovery_period = 0 /\ params.death_rate = 100
    /\ steps = 1
    /\ snapshot # NoSnapshot
    /\ Len(snapshot.features) = 2
    /\ agents[1].state = "D"

\* the nodes reachable from the set of nodes S over the edges of the graph
RECURSIVE ReachFrom(_)
ReachFrom(S) ==
    LET T == S \cup {v \in Nodes : \E u \in S : HasEdge(u, v)}
    IN  IF T = S THEN S ELSE ReachFrom(T)

Connected(u, v) == v \in ReachFrom({u})

\* agent a is activated in this step and asks for a new path in it
Resolves(a) == a \in pending /\ a \notin pending' /\ PathOf(agents[a], path_cache) = <<>>

\* C14: for valid start and end the router's result excludes start, ends
\* with end when it is not empty, and is empty when start = end; and an agent
\* that resolves a path which is not empty (a cached list that still has
\* hops, or on a miss a destination other than its node and connected to it)
\* pops as its first hop a node different from the node it stands on.
C14_FirstHopLeavesNode ==
    /\ [](call.fn = "compute_path" /\ call.done
             /\ call.args[1] \in Nodes /\ call.args[2] \in Nodes
          => LET start == call.args[1]
                 end == call.args[2]
                 path == call.result
             IN  /\ start = end => path = <<>>
                 /\ \A i \in 1 .. Len(path) : path[i] # start
                 /\ path # <<>> => path[Len(path)] = end)
    /\ [][\A a \in DOMAIN agents :
            Resolves(a) =>
                LET path_key == agents'[a].path
                    has_hops == IF path_key \in DOMAIN path_cache
                                THEN path_cache[path_key] # <<>>
                                ELSE /\ path_key[1] # path_key[2]
                                     /\ Connected(path_key[1], path_key[2])
                IN  has_hops => agents'[a].current_node # agents[a].current_node]_vars

\* C15: with start or end outside 0..N-1 the router returns the empty path;
\* an agent whose resolved path is empty (an empty cached list, or on a miss
\* a destination that is its own node or is not connected to it) keeps its
\* node and its geometry in that activation, and the activation leaves the
\* other agents as they are and still to be activated.
C15_EmptyPathStays ==
    /\ [](call.fn = "compute_path" /\ call.done
             /\ (call.args[1] \notin Nodes \/ call.args[2] \notin Nodes)
          => call.result = <<>>)
    /\ [][\A a \in DOMAIN agents :
            Resolves(a) =>
                LET path_key == agents'[a].path
                    is_empty == IF path_key \in DOMAIN path_cache
                                THEN path_cache[path_key] = <<>>
                                ELSE \/ path_key[1] = path_key[2]
                                     \/ ~Connected(path_key[1], path_key[2])
                IN  is_empty =>
                        /\ agents'[a].current_node = agents[a].current_node
                        /\ agents'[a].geometry = agents[a].geometry
                        /\ \A b \in DOMAIN agents \ {a} : agents'[b] = agents[b]
                        /\ pending' = pending \ {a}]_vars

\* C15 witness: an agent on node 0 has asked for the path to node 4, which no
\* edge reaches, stays on node 0, and the tick has gone on to its end
C15_Witness ==
    /\ pc = "idle"
    /\ steps >= 1
    /\ \E a \in DOMAIN agents :
          /\ agents[a].path = <<0, 4>>
          /\ agents[a].current_destination = 4
          /\ agents[a].current_node = 0
          /\ path_cache[<<0, 4>>] = <<>>

\* C16: on a weekday, for an agent the self-isolation draw does not send
\* home, an agent aged in [5,18) choosing at an hour in [8,15) gets its school
\* whenever school is set, and an agent aged in [18,65) at an hour in [8,17)
\* gets its work whenever work is set, whichever node of 0..N-1 that is; home
\* is chosen only when the attribute is not set.
C16_RoutineDestination ==
    call.fn = "update_destination" /\ call.done
    => LET p == call.args.agent
           day == (call.args.t \div 24) % 7
           hour == call.args.t % 24
           isolated == p.state = "I" /\ call.args.rHome < 50
       IN  day < 5 /\ ~isolated
           => /\ 5 <= p.age /\ p.age < 18 /\ 8 <= hour /\ hour < 15
                 => call.result = IF p.school # None THEN p.school ELSE p.home
              /\ 18 <= p.age /\ p.age < 65 /\ 8 <= hour /\ hour < 17
                 => call.result = IF p.work # None THEN p.work ELSE p.home

\* C18: each successful call of next returns the snapshot of the state as it
\* was before the call's step() and advances the model by exactly one tick:
\* the k-th call since the initialization returns step = k-1, and between
\* requests the model has made as many ticks as there were calls; with no
\* model the call returns an error value and advances nothing.
C18_NextReturnsThenAdvances ==
    /\ [](served.calls >= 1
          => /\ served.response.error = ""
             /\ served.response.state.step = served.calls - 1)
    /\ [](served.model /\ pc = "idle" => steps = served.calls)
    /\ [][served'.calls = served.calls + 1
          => /\ served'.response.state = StateOf(schedule, agents, steps)
             /\ pc = "idle" /\ pc' = "agents"]_vars
    /\ [][~served.model /\ ~served'.model /\ served' # served
          => /\ served'.response.error # ""
             /\ served'.calls = 0
             /\ UNCHANGED <<params, agents, schedule, pending, steps, path_cache,
                            infection_events, pc, deaths, removals>>]_vars

\* C18 witness: the second call of next has returned the snapshot of step 1,
\* which is not the state the model is in now, and its tick is over
C18_Witness ==
    /\ served.model
    /\ pc = "idle"
    /\ served.calls = 2
    /\ served.response.state.step = 1
    /\ steps = 2
    /\ served.response.state.seird_counts # StateOf(schedule, agents, steps).seird_counts

\* C18 witness of the error case: next was called with no model
C18_ErrorWitness ==
    /\ ~served.model
    /\ served.response.error = "No simulation running"
    /\ steps = 0

\* C19: the infection-event log is append-only: in every step of a run the
\* log before the step is a prefix of the log after it, so no recorded event
\* is changed, reordered or removed, also when its transmitter or receiver
\* is removed as Deceased.
C19_LogAppendOnly ==
    [][/\ Len(infection_events) <= Len(infection_events')
       /\ SubSeq(infection_events', 1, Len(infection_events)) = infection_events]_vars

\* C19 witness: the log holds an event whose transmitter or receiver has died
\* and has been removed from the schedule
C19_Witness ==
    /\ pc = "idle"
    /\ \E i \in 1 .. Len(infection_events) :
          \E a \in {infection_events[i][1], infection_events[i][2]} :
              /\ agents[a].state = "D"
              /\ a \notin Active
              /\ removals[a] = 1

\* C20: when at the infection check of a tick no active agent is in state I
\* or no active agent is in state S, the check changes no agent and appends
\* no event; and a run with num_agents = 1 never has an event in its log.
C20_CheckIsNoOpWithoutPair ==
    /\ [][(pc = "check" /\ pc' = "remove"
            /\ (\/ ~\E a \in Active : agents[a].state = "I"
                \/ ~\E a \in Active : agents[a].state = "S"))
          => /\ agents' = agents
             /\ infection_events' = infection_events]_vars
    /\ [](params.num_agents = 1 => infection_events = <<>>)

\* C20 witness: a check has just been made in a population of several agents
\* with an earlier infection on record, where somebody is Susceptible and
\* somebody Exposed but nobody is Infected
C20_Witness ==
    /\ pc = "remove"
    /\ params.num_agents > 1
    /\ infection_events # <<>>
    /\ ~\E a \in Active : agents[a].state = "I"
    /\ \E a \in Active : agents[a].state = "S"
    /\ \E a \in Active : agents[a].state = "E"

\* C20 witness of the boundary: the run of one agent has made all its ticks
C20_SingleAgentWitness ==
    /\ params.num_agents = 1
    /\ pc = "idle"
    /\ steps = MaxSteps

\* C21: the infection check of a tick runs when every active agent has been
\* activated in the tick and before the Deceased are removed, and it sees the
\* agents as their activations left them: every transmitter is Infected
\* after its activation; an agent that became Infected in this tick
\* transmits in this tick (to every Susceptible agent in range when
\* infection_prob = 1); an agent that became R or D in this tick transmits to
\* nobody; and an agent exposed in this tick has latent_timer 0 until its
\* activation in the next tick.
C21_CheckBetweenUpdatesAndRemoval ==
    /\ [][(pc = "check" /\ pc' = "remove") =>
            /\ pending = {}
            /\ \A a \in DOMAIN agents : removals[a] = 0 => a \in Active
            /\ \A i \in 1 .. Len(NewEvents) :
                  agents[NewEvents[i][1]].state = "I"
            /\ \A t \in Active :
                  /\ tickStart[t] = "E" /\ agents[t].state = "I"
                       /\ params.infection_prob = 100
                     => \A r \in Active :
                          agents[r].state = "S" /\ t \in InRange(r)
                          => \E i \in 1 .. Len(NewEvents) :
                                NewEvents[i] = <<t, r, steps>>
                  /\ tickStart[t] = "I" /\ agents[t].state \in {"R", "D"}
                     => \A i \in 1 .. Len(NewEvents) : NewEvents[i][1] # t]_vars
    /\ [][pc = "remove" => pc' = "idle"]_vars
    /\ [](pc \in {"remove", "idle"}
          => \A a \in DOMAIN agents :
                tickStart[a] = "S" /\ agents[a].state = "E"
                => agents[a].latent_timer = 0)

\* C21 witness: the check just made recorded a transmission by an agent that
\* was Exposed when the tick started, to an agent Susceptible until then
C21_Witness ==
    /\ pc = "remove"
    /\ \E i \in 1 .. Len(infection_events) :
          /\ infection_events[i][3] = steps
          /\ tickStart[infection_events[i][1]] = "E"
          /\ tickStart[infection_events[i][2]] = "S"
          /\ agents[infection_events[i][2]].latent_timer = 0

\* C21 witness: after the check an agent is still Susceptible within range of
\* an agent that was Infected when the tick started and left state I in it
C21_RecoveredWitness ==
    /\ pc = "remove"
    /\ \E t \in Active, r \in Active :
          /\ tickStart[t] = "I"
          /\ agents[t].state \in {"R", "D"}
          /\ agents[r].state = "S"
          /\ InBall(agents[t].geometry, agents[r].geometry,
                    params.distance_threshold)

\* agent a is activated in this step
Activated(a) == a \in pending /\ a \notin pending'

\* C22: an agent that holds a path of k hops towards its current_destination
\* stands on that destination after its next k activations, whatever the
\* other agents do and whether the path came from a miss or a hit: a path
\* that is not empty loses its first hop in each activation of its agent and
\* is left alone by every other step, and the activation that takes the last
\* hop of a path (resolved in this activation or held before it) leaves the
\* agent on its current_destination.  Agents that are Deceased have no
\* further activations and are left out.
C22_PathLeadsToDestination ==
    /\ [][\A a \in {b \in Active : agents'[b].state # "D"} :
            LET before == PathOf(agents[a], path_cache)
                after == PathOf(agents'[a], path_cache')
            IN  before # <<>> =>
                    /\ agents'[a].current_destination = agents[a].current_destination
                    /\ IF Activated(a)
                       THEN /\ after = Tail(before)
                            /\ after = <<>> => agents'[a].current_node
                                                 = agents[a].current_destination
                       ELSE after = before]_vars
    /\ [][\A a \in {b \in Active : agents'[b].state # "D"} :
            Resolves(a) =>
                LET path_key == agents'[a].path
                    has_hops == IF path_key \in DOMAIN path_cache
                                THEN path_cache[path_key] # <<>>
                                ELSE /\ path_key[1] # path_key[2]
                                     /\ Connected(path_key[1], path_key[2])
                    after == PathOf(agents'[a], path_cache')
                IN  has_hops /\ after = <<>>
                    => agents'[a].current_node = agents'[a].current_destination]_vars

\* the destinations update_destination may give agent record p at tick
\* counter t
PolicyValues(p, t) ==
    {update_destination(p, t, rHome, rLeisure, pick) :
        rHome \in Draws, rLeisure \in Draws,
        pick \in (IF leisure_pois # {} THEN leisure_pois ELSE {None})}

\* C23: current_destination and the list an agent follows are written by the
\* agent's own activation only, which happens at most once in a tick, and
\* only when the agent's path is empty as its movement update starts: then
\* the destination is one value of the policy for this tick and the agent
\* follows the list cached under (its node, that destination); with a path
\* that is not empty at that point the destination and the list are left as
\* they are.
C23_PolicyOnlyOnEmptyPath ==
    /\ [][\A a \in DOMAIN agents :
            IF Activated(a)
            THEN IF PathOf(agents[a], path_cache) # <<>>
                 THEN /\ agents'[a].current_destination
                           = agents[a].current_destination
                      /\ agents'[a].path = agents[a].path
                 ELSE /\ agents'[a].current_destination
                           \in PolicyValues(agents'[a], steps)
                      /\ agents'[a].path = <<agents[a].current_node,
                                             agents'[a].current_destination>>
            ELSE /\ agents'[a].current_destination = agents[a].current_destination
                 /\ agents'[a].path = agents[a].path]_vars
    /\ [][\A a \in DOMAIN agents :
            Activated(a) => /\ pc = "agents" /\ pc' = "agents"
                            /\ steps' = steps
                            /\ a \notin {schedule[i] : i \in 1 .. Len(schedule)}
                            /\ a \in {schedule'[i] : i \in 1 .. Len(schedule')}]_vars
    /\ [][pending' \subseteq pending \/ (pc = "idle" /\ pc' = "agents")]_vars

\* C23 witness: the only agent of a run, in its second activation, has taken
\* the next hop of the path to node 3 it resolved on node 0 in the first one
C23_Witness ==
    /\ params.num_agents = 1
    /\ pc = "agents"
    /\ steps = 1
    /\ pending = {}
    /\ agents[1].path = <<0, 3>>
    /\ agents[1].current_destination = 3
    /\ agents[1].current_node = 1
    /\ PathOf(agents[1], path_cache) = <<2, 3>>

\* C24: the counter of ticks grows by one in each step(), between the
\* activations and the infection check, and nowhere else; every event the
\* check of the k-th step() appends carries k, the value of the counter from
\* then until the call has returned and the value get_state() reports as step
\* after it; so the ticks of the log never decrease in log order and never
\* exceed the reported step.
C24_EventsCarryReportedStep ==
    /\ [][steps' = IF pc = "agents" /\ pc' = "check" THEN steps + 1 ELSE steps]_vars
    /\ [][\A i \in 1 .. Len(NewEvents) :
            /\ pc = "check" /\ pc' = "remove"
            /\ NewEvents[i][3] = steps
            /\ NewEvents[i][3] = StateOf(schedule', agents', steps').step]_vars
    /\ [](pc = "idle" =>
            \A i \in 1 .. Len(infection_events) :
                /\ infection_events[i][3] >= 1
                /\ infection_events[i][3] <= StateOf(schedule, agents, steps).step
                /\ snapshot # NoSnapshot => infection_events[i][3] <= snapshot.step)
    /\ [](\A i \in 1 .. Len(infection_events), j \in 1 .. Len(infection_events) :
            i < j => infection_events[i][3] <= infection_events[j][3])

\* C24 witness: get_state() has reported step 2 after two calls of step(),
\* and the log holds an event of tick 1 followed by an event of tick 2
C24_Witness ==
    /\ pc = "idle"
    /\ snapshot # NoSnapshot
    /\ snapshot.step = 2
    /\ \E i \in 1 .. Len(infection_events), j \in 1 .. Len(infection_events) :
          /\ i < j
          /\ infection_events[i][3] = 1
          /\ infection_events[j][3] = 2

\* C25: every event (t, r, k) is appended by the check of tick k with t # r,
\* t active and Infected and r active and Susceptible when that check
\* started, and the two within distance_threshold at that moment; so all
\* events with one receiver carry one tick, a receiver is never Susceptible
\* again after its event, and an agent created Infected is never a receiver.
C25_EventsJoinInfectedToSusceptible ==
    /\ [][\A i \in 1 .. Len(NewEvents) :
            LET t == NewEvents[i][1]
                r == NewEvents[i][2]
            IN  /\ pc = "check"
                /\ NewEvents[i][3] = steps
                /\ t # r
                /\ t \in Active /\ agents[t].state = "I"
                /\ r \in Active /\ agents[r].state = "S"
                /\ SqDist(agents[t].geometry, agents[r].geometry)
                     <= params.distance_threshold * params.distance_threshold
                /\ \A j \in 1 .. Len(infection_events) :
                      infection_events[j][2] # r]_vars
    /\ [](\A i \in 1 .. Len(infection_events), j \in 1 .. Len(infection_events) :
            infection_events[i][2] = infection_events[j][2]
            => infection_events[i][3] = infection_events[j][3])
    /\ [](\A i \in 1 .. Len(infection_events) :
            /\ agents[infection_events[i][2]].state # "S"
            /\ ~Seeded(infection_events[i][2]))

\* C25 witness: the receiver of an event of one tick is the transmitter of
\* an event of a later tick
C25_Witness ==
    \E i \in 1 .. Len(infection_events), j \in 1 .. Len(infection_events) :
        /\ infection_events[i][2] = infection_events[j][1]
        /\ infection_events[i][3] < infection_events[j][3]
        /\ infection_events[i][1] # infection_events[j][2]

\* C25 witness: the check just made found an agent exposed in an earlier
\* tick within range of an Infected agent, and the agent has no event of
\* this tick
C25_ExposedWitness ==
    /\ pc = "remove"
    /\ \E t \in Active, r \in Active :
          /\ agents[t].state = "I"
          /\ tickStart[r] = "E" /\ agents[r].state = "E"
          /\ InBall(agents[t].geometry, agents[r].geometry,
                    params.distance_threshold)
          /\ \E i \in 1 .. Len(infection_events) :
                infection_events[i][2] = r /\ infection_events[i][3] < steps

\* the agents removed from the schedule as Deceased
Removed == {a \in DOMAIN agents : removals[a] >= 1}

\* C26: no agent is created after construction and the ids are unique; at
\* every moment the active agents and the agents removed as Deceased are
\* num_agents together, and no agent is both; the active population never
\* grows; and the S, E, I and R counts get_state() reports sum to the number
\* of features it reports, each feature with an id of its own.
C26_PopulationConserved ==
    /\ [][DOMAIN agents' = DOMAIN agents /\ Active' \subseteq Active]_vars
    /\ [](/\ Cardinality(DOMAIN agents) = params.num_agents
          /\ Cardinality(Active) + Cardinality(Removed) = params.num_agents
          /\ Active \cap Removed = {}
          /\ Active \cup Removed = DOMAIN agents
          /\ \A a \in Removed : agents[a].state = "D"
          /\ \A i \in 1 .. Len(schedule), j \in 1 .. Len(schedule) :
                i # j => schedule[i] # schedule[j]
          /\ \A i \in 1 .. Len(schedule) : schedule[i] \notin pending)
    /\ [](snapshot # NoSnapshot
          => LET c == snapshot.seird_counts
                 f == snapshot.features
             IN  /\ c.S + c.E + c.I + c.R = Len(f)
                 /\ Len(f) = Cardinality(Active)
                 /\ \A i \in 1 .. Len(f), j \in 1 .. Len(f) :
                       i # j => f[i].id # f[j].id)

\* C26 witness: get_state() has reported the agents that are left after some
\* agent was removed as Deceased
C26_Witness ==
    /\ snapshot # NoSnapshot
    /\ Removed # {}
    /\ Len(snapshot.features) >= 1
    /\ Len(snapshot.features) < params.num_agents
    /\ snapshot.seird_counts.E + snapshot.seird_counts.I >= 1

\* C27: at every tick boundary and at every infection check (and between
\* any two activations) the position of each agent is the coordinates of its
\* current_node, and its home, work, school and age are those it was created
\* with: they are those of the profiles of one population, and no step
\* changes them.
C27_PositionIsNodeAndProfileKept ==
    /\ [](\A a \in DOMAIN agents :
            /\ agents[a].current_node \in Nodes
            /\ agents[a].geometry = NodeGeometry(agents[a].current_node))
    /\ [](\E prof \in Populations :
            /\ DOMAIN agents = DOMAIN prof
            /\ \A a \in DOMAIN agents :
                  /\ agents[a].home = prof[a].home
                  /\ agents[a].work = prof[a].work
                  /\ agents[a].school = prof[a].school
                  /\ agents[a].age = prof[a].age)
    /\ [][\A a \in DOMAIN agents :
            /\ agents'[a].home = agents[a].home
            /\ agents'[a].work = agents[a].work
            /\ agents'[a].school = agents[a].school
            /\ agents'[a].age = agents[a].age]_vars

\* C27 witness: at the infection check of a tick an active agent stands on a
\* node that is not its home, at that node's coordinates
C27_Witness ==
    /\ pc = "check"
    /\ \E a \in Active :
          /\ agents[a].current_node # agents[a].home
          /\ agents[a].geometry = NodeGeometry(agents[a].current_node)
          /\ agents[a].geometry # NodeGeometry(agents[a].home)

=============================================================================
